---- MODULE Spec2Model ----
(***************************************************************************)
(* Journey Task Board (src/src/App.tsx): the task collection held by the   *)
(* JourneyTaskBoard component, its mutators (submitForm, toggleDone,       *)
(* removeTask, clearAll, resetAllToIncomplete, onDragEnd) and its derived  *)
(* views (filteredTasks, sectionStats).                                    *)
(*                                                                         *)
(* Strings are tuples of one-character strings.  An optional field         *)
(* (category?, comment?, order?) is a tuple of length at most one: <<>> is *)
(* undefined and <<v>> is the value v.  uid() is a counter and Date.now()  *)
(* a non-decreasing clock.  The modal form is an input of submitForm: the  *)
(* id openEdit stored (<<>> after openCreate) and the four field values.   *)
(*                                                                         *)
(* localStorage holds one item, a JSON text, which the load effect reads   *)
(* once after the first render and the save effect writes after every      *)
(* render that follows a setTasks.  The item is never read again, so the   *)
(* specifications about the collection alone leave it as it is.            *)
(***************************************************************************)
EXTENDS Integers, Sequences, FiniteSets, TLC

VARIABLES
    tasks,           \* useState<Task[]>: the collection, in array order
    categoryFilter,  \* useState<string>("All")
    onlyIncomplete,  \* useState<boolean>(false)
    now,             \* the last value Date.now() returned
    nextId,          \* the number of uid() values handed out
    removed,         \* history: the stored ids removeTask was called with
    last,            \* history: the handler that ran last, and how it ended
    storage,         \* localStorage.getItem(STORAGE_KEY): <<>> is null
    pc,              \* how far the effects of the first render have run
    pending,         \* the array a setTasks of the load effect has queued
    failures,        \* history: the number of setItem calls that threw
    mounted          \* history: the item when the component mounted, kept
                     \* until the first handler runs

vars ==
    <<tasks, categoryFilter, onlyIncomplete, now, nextId, removed, last,
      storage, pc, pending, failures, mounted>>

\* the persistence bridge: the item, and the effects of startup
bridge == <<storage, pc, pending, failures, mounted>>

-----------------------------------------------------------------------------
(* Bounds                                                                  *)

\* the tasks ever created under Spec, and under SpecForm
MaxTasks == 3

MaxFormTasks == 2

\* the tasks ever created under SpecTies
MaxTiesTasks == 2

\* the tasks of a stored array under SpecView
MaxViewTasks == 2

\* the tasks of a stored array under SpecStats
MaxStatsTasks == 3

\* the tasks the stored array holds at startup under SpecPersist, and the
\* tasks created after it
MaxStoredTasks == 1

MaxPersistTasks == 1

\* the setItem calls that throw under SpecPersist
MaxFailures == 1

-----------------------------------------------------------------------------
(* Values                                                                  *)

sections == <<"Morning", "Midday", "AfterWork">>

Section == {sections[i] : i \in 1..Len(sections)}

undefined == <<>>

Some(v) == <<v>>

\* o ?? d
Nullish(o, d) == IF o = undefined THEN d ELSE o[1]

\* the key filteredTasks and onDragEnd give a task without order
NoOrderKey == 999999

All == <<"A", "l", "l">>

\* the characters \s matches, among those the inputs use
WhiteSpace == {" ", "\t"}

\* what the user types in the title, category and comment fields
TitleInputs ==
    { <<>>, <<" ", "\t">>, <<"a">>, <<"\t", "a", " ", "\t", "b", " ">> }

PaddedTitles == { <<>>, <<" ", "\t">>, <<"\t", "a", " ">> }

CategoryInputs == { <<>>, <<" ", "w", " ">> }

CommentInputs == { <<"\t">>, <<" ", "c", " ", " ", "d", "\t">> }

\* the ids a drag event can carry: 0 is an id uid() never returned
DragIds == 0..MaxTasks

-----------------------------------------------------------------------------
(* Pure helpers                                                            *)

RECURSIVE TrimStart(_)
TrimStart(s) ==
    IF s # <<>> /\ Head(s) \in WhiteSpace THEN TrimStart(Tail(s)) ELSE s

RECURSIVE TrimEnd(_)
TrimEnd(s) ==
    IF s # <<>> /\ s[Len(s)] \in WhiteSpace
    THEN TrimEnd(SubSeq(s, 1, Len(s) - 1))
    ELSE s

trim(s) == TrimEnd(TrimStart(s))

\* s.replace(/\s+/g, " ")
RECURSIVE ReplaceWhiteSpaceRuns(_)
ReplaceWhiteSpaceRuns(s) ==
    IF s = <<>> THEN <<>>
    ELSE IF Head(s) \in WhiteSpace
         THEN <<" ">> \o ReplaceWhiteSpaceRuns(TrimStart(s))
         ELSE <<Head(s)>> \o ReplaceWhiteSpaceRuns(Tail(s))

clampStr(s) == ReplaceWhiteSpaceRuns(trim(s))

\* s || undefined
OrUndefined(s) == IF s = <<>> THEN undefined ELSE Some(s)

\* Math.round((done / total) * 100), which rounds a half up
pct(done, total) ==
    IF total <= 0 THEN 0 ELSE (200 * done + total) \div (2 * total)

\* array.filter(p), for p given as the set of the elements it keeps
RECURSIVE SelectIn(_, _)
SelectIn(s, keep) ==
    IF s = <<>> THEN <<>>
    ELSE IF Head(s) \in keep
         THEN <<Head(s)>> \o SelectIn(Tail(s), keep)
         ELSE SelectIn(Tail(s), keep)

Range(s) == {s[i] : i \in 1..Len(s)}

\* mutant: the tie-break puts the oldest first
ViewCmpOldestFirst(a, b) ==
    LET ao == Nullish(a.order, NoOrderKey)
        bo == Nullish(b.order, NoOrderKey)
    IN  IF ao # bo THEN ao - bo ELSE a.createdAt - b.createdAt

\* mutant: the order is not compared
ViewCmpByCreatedAt(a, b) == b.createdAt - a.createdAt

\* the comparator of filteredTasks
ViewCmp(a, b) ==
    LET ao == Nullish(a.order, NoOrderKey)
        bo == Nullish(b.order, NoOrderKey)
    IN  IF ao # bo THEN ao - bo ELSE b.createdAt - a.createdAt

\* the comparator of onDragEnd
DragCmp(a, b) == Nullish(a.order, NoOrderKey) - Nullish(b.order, NoOrderKey)

Compare(kind, a, b) == IF kind = "view" THEN ViewCmp(a, b) ELSE DragCmp(a, b)

\* Array.prototype.sort is stable: x goes after every element not greater
RECURSIVE InsertSorted(_, _, _)
InsertSorted(x, s, kind) ==
    IF s = <<>> THEN <<x>>
    ELSE IF Compare(kind, Head(s), x) <= 0
         THEN <<Head(s)>> \o InsertSorted(x, Tail(s), kind)
         ELSE <<x>> \o s

RECURSIVE sort(_, _)
sort(s, kind) ==
    IF s = <<>> THEN <<>>
    ELSE InsertSorted(s[Len(s)], sort(SubSeq(s, 1, Len(s) - 1), kind), kind)

\* array.findIndex(t => t.id === id), zero-based, -1 when there is none
RECURSIVE findIndexFrom(_, _, _)
findIndexFrom(s, id, i) ==
    IF i > Len(s) THEN -1
    ELSE IF s[i].id = id THEN i - 1
    ELSE findIndexFrom(s, id, i + 1)

findIndex(s, id) == findIndexFrom(s, id, 1)

\* array.find(t => t.id === id): <<>> when there is none
find(s, id) ==
    LET i == findIndex(s, id) IN IF i = -1 THEN undefined ELSE Some(s[i + 1])

\* mutant: the two elements change places
arraySwap(array, from, to) ==
    [i \in 1..Len(array) |->
        IF i = from + 1 THEN array[to + 1]
        ELSE IF i = to + 1 THEN array[from + 1]
        ELSE array[i]]

\* arrayMove of @dnd-kit/sortable, for 0 <= from, to < length:
\* newArray.splice(to, 0, newArray.splice(from, 1)[0])
arrayMove(array, from, to) ==
    LET item == array[from + 1]
        rest == SubSeq(array, 1, from) \o SubSeq(array, from + 2, Len(array))
    IN  SubSeq(rest, 1, to) \o <<item>> \o SubSeq(rest, to + 1, Len(rest))

-----------------------------------------------------------------------------
(* Derived views                                                           *)

filtered(ts, cf, oi) ==
    LET byCategory ==
            SelectIn(ts, {t \in Range(ts) : cf = All \/ t.category = Some(cf)})
        byDone ==
            SelectIn(byCategory, {t \in Range(byCategory) : oi => ~t.done})
    IN  sort(byDone, "view")

filteredTasks == filtered(tasks, categoryFilter, onlyIncomplete)

statsOf(list) ==
    [s \in Section |->
        LET inSection == SelectIn(list, {t \in Range(list) : t.section = s})
            total == Len(inSection)
            done == Len(SelectIn(inSection, {t \in Range(inSection) : t.done}))
        IN  [done |-> done, total |-> total, pct |-> pct(done, total)]]

\* mutant: the statistics count the whole collection
sectionStatsOfStore == statsOf(tasks)

sectionStats == statsOf(filteredTasks)

\* the options of the category select
categories(ts) ==
    {All} \cup {trim(t.category[1]) : t \in {u \in Range(ts) :
                    u.category # undefined /\ trim(u.category[1]) # <<>>}}

-----------------------------------------------------------------------------
(* JSON.stringify and JSON.parse, on texts as tuples of characters.  The   *)
(* members of a task are written in the order of the Task type; the order  *)
(* in which an object got its keys is not modelled.  The string uid()      *)
(* returned for the task numbered n is the decimal text of n.              *)

Digits == <<"0", "1", "2", "3", "4", "5", "6", "7", "8", "9">>

\* String(n), for an integer n >= 0
RECURSIVE NumberText(_)
NumberText(n) ==
    IF n < 10 THEN <<Digits[n + 1]>>
    ELSE NumberText(n \div 10) \o <<Digits[(n % 10) + 1]>>

DigitOf(c) == (CHOOSE d \in 1..10 : Digits[d] = c) - 1

\* the characters of the three section names
SectionText ==
    [Morning |-> <<"M", "o", "r", "n", "i", "n", "g">>,
     Midday |-> <<"M", "i", "d", "d", "a", "y">>,
     AfterWork |-> <<"A", "f", "t", "e", "r", "W", "o", "r", "k">>]

SectionOf(text) == CHOOSE s \in Section : SectionText[s] = text

\* the keys of a Task
KeyId == <<"i", "d">>
KeyTitle == <<"t", "i", "t", "l", "e">>
KeySection == <<"s", "e", "c", "t", "i", "o", "n">>
KeyCategory == <<"c", "a", "t", "e", "g", "o", "r", "y">>
KeyDone == <<"d", "o", "n", "e">>
KeyComment == <<"c", "o", "m", "m", "e", "n", "t">>
KeyCreatedAt == <<"c", "r", "e", "a", "t", "e", "d", "A", "t">>
KeyOrder == <<"o", "r", "d", "e", "r">>

TextTrue == <<"t", "r", "u", "e">>
TextFalse == <<"f", "a", "l", "s", "e">>
TextNull == <<"n", "u", "l", "l">>

\* the characters of a string as a JSON text writes them between the quotes
RECURSIVE Escaped(_)
Escaped(s) ==
    IF s = <<>> THEN <<>>
    ELSE (IF Head(s) = "\"" THEN <<"\\", "\"">>
          ELSE IF Head(s) = "\\" THEN <<"\\", "\\">>
          ELSE IF Head(s) = "\t" THEN <<"\\", "t">>
          ELSE <<Head(s)>>) \o Escaped(Tail(s))

Quote(s) == <<"\"">> \o Escaped(s) \o <<"\"">>

Member(key, text) == <<Quote(key) \o <<":">> \o text>>

\* texts.join(",")
RECURSIVE Join(_)
Join(texts) ==
    IF texts = <<>> THEN <<>>
    ELSE IF Len(texts) = 1 THEN texts[1]
    ELSE texts[1] \o <<",">> \o Join(Tail(texts))

\* mutant: the comment is not written
membersWithoutComment(t) ==
    Member(KeyId, Quote(NumberText(t.id)))
    \o Member(KeyTitle, Quote(t.title))
    \o Member(KeySection, Quote(SectionText[t.section]))
    \o (IF t.category = undefined THEN <<>>
        ELSE Member(KeyCategory, Quote(t.category[1])))
    \o Member(KeyDone, IF t.done THEN TextTrue ELSE TextFalse)
    \o Member(KeyCreatedAt, NumberText(t.createdAt))
    \o (IF t.order = undefined THEN <<>>
        ELSE Member(KeyOrder, NumberText(t.order[1])))

\* the members JSON.stringify writes for a task: one that is undefined is
\* left out
members(t) ==
    Member(KeyId, Quote(NumberText(t.id)))
    \o Member(KeyTitle, Quote(t.title))
    \o Member(KeySection, Quote(SectionText[t.section]))
    \o (IF t.category = undefined THEN <<>>
        ELSE Member(KeyCategory, Quote(t.category[1])))
    \o Member(KeyDone, IF t.done THEN TextTrue ELSE TextFalse)
    \o (IF t.comment = undefined THEN <<>>
        ELSE Member(KeyComment, Quote(t.comment[1])))
    \o Member(KeyCreatedAt, NumberText(t.createdAt))
    \o (IF t.order = undefined THEN <<>>
        ELSE Member(KeyOrder, NumberText(t.order[1])))

\* JSON.stringify(ts), for an array of tasks
stringify(ts) ==
    <<"[">>
    \o Join([i \in 1..Len(ts) |-> <<"{">> \o Join(members(ts[i])) \o <<"}">>])
    \o <<"]">>

\* the values a JSON text denotes
JsonString(s) == [t |-> "string", v |-> s]
JsonNumber(n) == [t |-> "number", v |-> n]
JsonBoolean(b) == [t |-> "boolean", v |-> b]
JsonNull == [t |-> "null", v |-> <<>>]
JsonArray(a) == [t |-> "array", v |-> a]
JsonObject(m) == [t |-> "object", v |-> m]

\* what reading a value at an index gives: the value and the index after
\* it, or a SyntaxError
Fail == [ok |-> FALSE, v |-> <<>>, i |-> 0]
Ok(v, i) == [ok |-> TRUE, v |-> v, i |-> i]

\* the character at index i, "" past the end
At(s, i) == IF i \in 1..Len(s) THEN s[i] ELSE ""

StartsWith(s, i, word) ==
    i + Len(word) - 1 <= Len(s) /\ SubSeq(s, i, i + Len(word) - 1) = word

\* the characters of a string, from after its opening quote
RECURSIVE parseChars(_, _, _)
parseChars(s, i, acc) ==
    LET c == At(s, i)
        e == At(s, i + 1)
    IN  IF c = "" \/ c = "\t" THEN Fail
        ELSE IF c = "\"" THEN Ok(acc, i + 1)
        ELSE IF c # "\\" THEN parseChars(s, i + 1, Append(acc, c))
        ELSE IF e = "\"" \/ e = "\\" THEN parseChars(s, i + 2, Append(acc, e))
        ELSE IF e = "t" THEN parseChars(s, i + 2, Append(acc, "\t"))
        ELSE Fail

RECURSIVE parseDigits(_, _, _)
parseDigits(s, i, n) ==
    IF At(s, i) \in Range(Digits)
    THEN parseDigits(s, i + 1, 10 * n + DigitOf(At(s, i)))
    ELSE Ok(JsonNumber(n), i)

RECURSIVE parseValue(_, _)
RECURSIVE parseElements(_, _, _)
RECURSIVE parseMembers(_, _, _)

parseValue(s, i) ==
    LET c == At(s, i)
        str == parseChars(s, i + 1, <<>>)
    IN  IF c = "\"" THEN (IF str.ok THEN Ok(JsonString(str.v), str.i) ELSE Fail)
        ELSE IF c = "0" THEN Ok(JsonNumber(0), i + 1)
        ELSE IF c \in Range(Digits) THEN parseDigits(s, i, 0)
        ELSE IF StartsWith(s, i, TextTrue) THEN Ok(JsonBoolean(TRUE), i + 4)
        ELSE IF StartsWith(s, i, TextFalse) THEN Ok(JsonBoolean(FALSE), i + 5)
        ELSE IF StartsWith(s, i, TextNull) THEN Ok(JsonNull, i + 4)
        ELSE IF c = "[" THEN (IF At(s, i + 1) = "]" THEN Ok(JsonArray(<<>>), i + 2)
                              ELSE parseElements(s, i + 1, <<>>))
        ELSE IF c = "{" THEN (IF At(s, i + 1) = "}" THEN Ok(JsonObject(<<>>), i + 2)
                              ELSE parseMembers(s, i + 1, <<>>))
        ELSE Fail

\* the elements of an array, from the start of one of them
parseElements(s, i, acc) ==
    LET r == parseValue(s, i)
    IN  IF ~r.ok THEN Fail
        ELSE IF At(s, r.i) = "," THEN parseElements(s, r.i + 1, Append(acc, r.v))
        ELSE IF At(s, r.i) = "]" THEN Ok(JsonArray(Append(acc, r.v)), r.i + 1)
        ELSE Fail

\* the members of an object, from the start of one of them
parseMembers(s, i, acc) ==
    LET k == parseChars(s, i + 1, <<>>)
        r == parseValue(s, k.i + 1)
        m == Append(acc, [key |-> k.v, value |-> r.v])
    IN  IF At(s, i) # "\"" THEN Fail
        ELSE IF ~k.ok THEN Fail
        ELSE IF At(s, k.i) # ":" THEN Fail
        ELSE IF ~r.ok THEN Fail
        ELSE IF At(s, r.i) = "," THEN parseMembers(s, r.i + 1, m)
        ELSE IF At(s, r.i) = "}" THEN Ok(JsonObject(m), r.i + 1)
        ELSE Fail

\* JSON.parse(text): a SyntaxError unless the text is one value
parse(text) ==
    LET r == parseValue(text, 1)
    IN  IF r.ok /\ r.i = Len(text) + 1 THEN r ELSE Fail

\* o[key] for an object read from a text: <<>> when o has no such key
get(o, key) ==
    LET at == {j \in 1..Len(o.v) : o.v[j].key = key}
    IN  IF at = {} THEN undefined
        ELSE Some(o.v[CHOOSE j \in at : \A l \in at : l <= j].value)

\* an object read from a text, as the Task the component takes it for
asTask(o) ==
    [id |-> parseDigits(get(o, KeyId)[1].v, 1, 0).v.v,
     title |-> get(o, KeyTitle)[1].v,
     section |-> SectionOf(get(o, KeySection)[1].v),
     category |-> IF get(o, KeyCategory) = undefined THEN undefined
                  ELSE Some(get(o, KeyCategory)[1].v),
     done |-> get(o, KeyDone)[1].v,
     comment |-> IF get(o, KeyComment) = undefined THEN undefined
                 ELSE Some(get(o, KeyComment)[1].v),
     createdAt |-> get(o, KeyCreatedAt)[1].v,
     order |-> IF get(o, KeyOrder) = undefined THEN undefined
               ELSE Some(get(o, KeyOrder)[1].v)]

-----------------------------------------------------------------------------
(* Handlers                                                                *)

Init ==
    /\ tasks = <<>>
    /\ categoryFilter = All
    /\ onlyIncomplete = FALSE
    /\ now = 0
    /\ nextId = 0
    /\ removed = {}
    /\ last = "init"
    /\ storage = undefined
    /\ pc = "ready"
    /\ pending = undefined
    /\ failures = 0
    /\ mounted = storage

View == <<categoryFilter, onlyIncomplete>>

SetCategoryFilter(c) ==
    /\ c \in categories(tasks)
    /\ c # categoryFilter
    /\ categoryFilter' = c
    /\ last' = "filter"
    /\ UNCHANGED <<tasks, onlyIncomplete, now, nextId, removed>>

SetOnlyIncomplete(b) ==
    /\ b # onlyIncomplete
    /\ onlyIncomplete' = b
    /\ last' = "filter"
    /\ UNCHANGED <<tasks, categoryFilter, now, nextId, removed>>

\* the task the edit branch of submitForm writes
edited(t, title, formSection, category, comment) ==
    [t EXCEPT !.title = title,
              !.section = formSection,
              !.category = OrUndefined(category),
              !.comment = OrUndefined(comment)]

\* .reduce((m, x) => Math.max(m, x.order ?? -1), m)
RECURSIVE reduceMaxOrder(_, _)
reduceMaxOrder(s, m) ==
    IF s = <<>> THEN m
    ELSE LET o == Nullish(Head(s).order, -1)
         IN  reduceMaxOrder(Tail(s), IF o > m THEN o ELSE m)

\* mutant: the order is the number of tasks of the section
nextOrderByCount(ts, formSection) ==
    Len(SelectIn(ts, {x \in Range(ts) : x.section = formSection}))

\* mutant: the largest order of the section, not one more
nextOrderOfMax(ts, formSection) ==
    reduceMaxOrder(SelectIn(ts, {x \in Range(ts) : x.section = formSection}), 0)

nextOrder(ts, formSection) ==
    reduceMaxOrder(SelectIn(ts, {x \in Range(ts) : x.section = formSection}), -1) + 1

\* mutant: the id is the position in the collection, which a delete frees
newTaskNumberedByLength(ts, id, title, formSection, category, comment, clock) ==
    [id |-> Len(ts) + 1,
     title |-> title,
     section |-> formSection,
     category |-> OrUndefined(category),
     done |-> FALSE,
     comment |-> OrUndefined(comment),
     createdAt |-> clock,
     order |-> Some(nextOrder(ts, formSection))]

\* the task the create branch of submitForm builds
newTask(ts, id, title, formSection, category, comment, clock) ==
    [id |-> id,
     title |-> title,
     section |-> formSection,
     category |-> OrUndefined(category),
     done |-> FALSE,
     comment |-> OrUndefined(comment),
     createdAt |-> clock,
     order |-> Some(nextOrder(ts, formSection))]

\* mutant: the new task is put after the others
submittedAppending(ts, editing, id, formTitle, formSection, formCategory, formComment, clock) ==
    LET title == clampStr(formTitle)
        category == clampStr(formCategory)
        comment == trim(formComment)
    IN  IF title = <<>> THEN ts
        ELSE IF editing # undefined
        THEN [i \in 1..Len(ts) |->
                 IF ts[i].id = editing[1]
                 THEN edited(ts[i], title, formSection, category, comment)
                 ELSE ts[i]]
        ELSE ts \o <<newTask(ts, id, title, formSection, category, comment, clock)>>

\* mutant: the title is tested before it is normalized
submittedTestingRawTitle(ts, editing, id, formTitle, formSection, formCategory, formComment, clock) ==
    LET title == clampStr(formTitle)
        category == clampStr(formCategory)
        comment == trim(formComment)
    IN  IF formTitle = <<>> THEN ts
        ELSE IF editing # undefined
        THEN [i \in 1..Len(ts) |->
                 IF ts[i].id = editing[1]
                 THEN edited(ts[i], title, formSection, category, comment)
                 ELSE ts[i]]
        ELSE <<newTask(ts, id, title, formSection, category, comment, clock)>> \o ts

\* what submitForm does to the collection: editing is the id openEdit
\* stored, or <<>> after openCreate
submitted(ts, editing, id, formTitle, formSection, formCategory, formComment, clock) ==
    LET title == clampStr(formTitle)
        category == clampStr(formCategory)
        comment == trim(formComment)
    IN  IF title = <<>> THEN ts
        ELSE IF editing # undefined
        THEN [i \in 1..Len(ts) |->
                 IF ts[i].id = editing[1]
                 THEN edited(ts[i], title, formSection, category, comment)
                 ELSE ts[i]]
        ELSE <<newTask(ts, id, title, formSection, category, comment, clock)>> \o ts

creates(editing, formTitle) == clampStr(formTitle) # <<>> /\ editing = undefined

\* clock is the value Date.now() returns if the create branch reads it
submitForm(editing, formTitle, formSection, formCategory, formComment, clock) ==
    /\ clock >= now
    /\ ~creates(editing, formTitle) => clock = now
    /\ tasks' = submitted(tasks, editing, nextId + 1, formTitle, formSection,
                          formCategory, formComment, clock)
    /\ nextId' = IF creates(editing, formTitle) THEN nextId + 1 ELSE nextId
    /\ now' = clock
    /\ last' = IF clampStr(formTitle) = <<>> THEN "rejected"
               ELSE IF editing = undefined THEN "create"
               ELSE "update"
    /\ UNCHANGED <<View, removed>>

\* mutant: the task is marked done
toggledToDone(ts, id) ==
    [i \in 1..Len(ts) |->
        IF ts[i].id = id THEN [ts[i] EXCEPT !.done = TRUE] ELSE ts[i]]

toggled(ts, id) ==
    [i \in 1..Len(ts) |->
        IF ts[i].id = id THEN [ts[i] EXCEPT !.done = ~ts[i].done] ELSE ts[i]]

toggleDone(id) ==
    /\ tasks' = toggled(tasks, id)
    /\ last' = "toggle"
    /\ UNCHANGED <<View, now, nextId, removed>>

without(ts, id) == SelectIn(ts, {t \in Range(ts) : t.id # id})

removeTask(id) ==
    /\ tasks' = without(tasks, id)
    /\ removed' = IF \E t \in Range(tasks) : t.id = id
                  THEN removed \cup {id} ELSE removed
    /\ last' = "delete"
    /\ UNCHANGED <<View, now, nextId>>

clearAll(confirmed) ==
    /\ tasks' = IF confirmed THEN <<>> ELSE tasks
    /\ last' = IF confirmed THEN "clear" ELSE "cancelled"
    /\ UNCHANGED <<View, now, nextId, removed>>

allIncomplete(ts) == [i \in 1..Len(ts) |-> [ts[i] EXCEPT !.done = FALSE]]

resetAllToIncomplete(confirmed) ==
    /\ tasks' = IF confirmed THEN allIncomplete(tasks) ELSE tasks
    /\ last' = IF confirmed THEN "reset" ELSE "cancelled"
    /\ UNCHANGED <<View, now, nextId, removed>>

\* the tasks of a section in the sequence onDragEnd moves a task in
sectionTasks(ts, section) ==
    sort(SelectIn(ts, {t \in Range(ts) : t.section = section}), "drag")

\* the collection onDragEnd writes once both tasks are found in one section
reordered(ts, activeId, overId) ==
    LET section == find(ts, activeId)[1].section
        oldIndex == findIndex(sectionTasks(ts, section), activeId)
        newIndex == findIndex(sectionTasks(ts, section), overId)
        moved == arrayMove(sectionTasks(ts, section), oldIndex, newIndex)
        orderOf(id) == LET i == findIndex(moved, id) IN IF i = -1 THEN 0 ELSE i
    IN  IF oldIndex = -1 \/ newIndex = -1 THEN ts
        ELSE [i \in 1..Len(ts) |->
                 IF ts[i].section = section
                 THEN [ts[i] EXCEPT !.order = Some(orderOf(ts[i].id))]
                 ELSE ts[i]]

\* mutant: a task dropped on itself is not ignored
dragReturnsEarlyUnlessSame(ts, activeId, over) ==
    \/ over = undefined
    \/ find(ts, activeId) = undefined
    \/ find(ts, over[1]) = undefined
    \/ find(ts, activeId)[1].section # find(ts, over[1])[1].section

\* the early returns of onDragEnd; over is <<>> when the drag ends over nothing
dragReturnsEarly(ts, activeId, over) ==
    \/ over = undefined
    \/ activeId = over[1]
    \/ find(ts, activeId) = undefined
    \/ find(ts, over[1]) = undefined
    \/ find(ts, activeId)[1].section # find(ts, over[1])[1].section

dragResult(ts, activeId, over) ==
    IF dragReturnsEarly(ts, activeId, over)
    THEN ts
    ELSE reordered(ts, activeId, over[1])

onDragEnd(activeId, over) ==
    /\ tasks' = dragResult(tasks, activeId, over)
    /\ last' = IF dragReturnsEarly(tasks, activeId, over)
               THEN "drag_ignored"
               ELSE "reorder"
    /\ UNCHANGED <<View, now, nextId, removed>>

Overs == {undefined} \cup {Some(i) : i \in DragIds}

\* the handlers that write the collection: at most limit tasks are ever
\* created, the form's inputs are drawn from the given sets, and Date.now()
\* advances by one of steps between two creations
Mutate(limit, titles, formSections, formCategories, formComments, steps) ==
    \/ \E editing \in {undefined} \cup {Some(i) : i \in 1..nextId},
          ft \in titles, fs \in formSections, fc \in formCategories,
          fm \in formComments, step \in steps \cup {0} :
            /\ creates(editing, ft) => nextId < limit /\ step \in steps
            /\ submitForm(editing, ft, fs, fc, fm, now + step)
    \/ \E id \in DragIds : toggleDone(id)
    \/ \E id \in DragIds : removeTask(id)
    \/ \E confirmed \in BOOLEAN : clearAll(confirmed)
    \/ \E confirmed \in BOOLEAN : resetAllToIncomplete(confirmed)
    \/ \E activeId \in DragIds, over \in Overs : onDragEnd(activeId, over)

\* the board from the empty store, every section, titles that differ only in
\* white space, a clock that advances between two creations
Next ==
    Mutate(MaxTasks, PaddedTitles, Section, {<<>>}, {<<>>}, {1}) /\ UNCHANGED bridge

Spec == Init /\ [][Next]_vars

\* the board from the empty store with every text field in use, every task in
\* the section openCreate selects, and a clock that may return the same value
\* twice
NextForm ==
    /\ Mutate(MaxFormTasks, TitleInputs, {"Morning"}, CategoryInputs,
              CommentInputs, {0, 1})
    /\ UNCHANGED bridge

SpecForm == Init /\ [][NextForm]_vars

\* the board from the empty store with two sections to move a task between
\* and a clock that may return the same value twice
NextTies ==
    /\ Mutate(MaxTiesTasks, {<<"a">>}, {"Morning", "Midday"}, {<<>>}, {<<>>},
              {0, 1})
    /\ UNCHANGED bridge

SpecTies == Init /\ [][NextTies]_vars

\* the tasks a stored array can hold at position id: any tasks, with or
\* without category and order
StoredTasks(id, inSections, createdAts, orders) ==
    [id : {id},
     title : {<<"a">>},
     section : inSections,
     category : {undefined, Some(<<"w">>)},
     done : BOOLEAN,
     comment : {undefined},
     createdAt : createdAts,
     order : orders]

\* the arrays of n tasks the load effect can hand to setTasks
RECURSIVE StoredArrays(_, _, _, _)
StoredArrays(n, inSections, createdAts, orders) ==
    IF n = 0 THEN {<<>>}
    ELSE {Append(s, t) : s \in StoredArrays(n - 1, inSections, createdAts, orders),
                         t \in StoredTasks(n, inSections, createdAts, orders)}

\* the board once the load effect has run on one of the given arrays
Loaded(arrays) ==
    /\ tasks \in arrays
    /\ categoryFilter = All
    /\ onlyIncomplete = FALSE
    /\ now = 1
    /\ nextId = Len(tasks)
    /\ removed = {}
    /\ last = "init"
    /\ storage = undefined
    /\ pc = "ready"
    /\ pending = undefined
    /\ failures = 0
    /\ mounted = storage

\* the two filter controls
NextView ==
    /\ \/ \E c \in categories(tasks) : SetCategoryFilter(c)
       \/ \E b \in BOOLEAN : SetOnlyIncomplete(b)
    /\ UNCHANGED bridge

\* one column of the board showing a loaded array, whose tasks may lack an
\* order and may share an order or a createdAt
InitView ==
    Loaded(UNION {StoredArrays(n, {"Morning"}, {0, 1}, {undefined, Some(0), Some(1)})
                  : n \in 0..MaxViewTasks})

SpecView == InitView /\ [][NextView]_vars

\* the three columns of the board showing a loaded array
InitStats ==
    Loaded(UNION {StoredArrays(n, Section, {0}, {undefined}) : n \in 0..MaxStatsTasks})

SpecStats == InitStats /\ [][NextView]_vars

-----------------------------------------------------------------------------
(* The persistence bridge                                                  *)

\* the array the load effect hands to setTasks when the item is raw, <<>>
\* when it calls no setTasks: no item, an empty one, a text JSON.parse
\* throws on, or a value that is not an array
loaded(raw) ==
    IF raw = undefined \/ raw[1] = <<>> THEN undefined
    ELSE LET parsed == parse(raw[1])
         IN  IF ~parsed.ok THEN undefined
             ELSE IF parsed.v.t # "array" THEN undefined
             ELSE Some([i \in 1..Len(parsed.v.v) |-> asTask(parsed.v.v[i])])

\* the item after the save effect of a render whose tasks are ts; ok is
\* false when setItem throws, which the effect catches
setItem(ts, ok) == IF ok THEN Some(stringify(ts)) ELSE storage

\* whether a setItem succeeds is for localStorage to decide
WriteOutcomes == IF failures < MaxFailures THEN BOOLEAN ELSE {TRUE}

\* the load effect, first of the two effects of the first render
loadEffect ==
    /\ pc = "mounted"
    /\ pending' = loaded(storage)
    /\ pc' = "loaded"
    /\ UNCHANGED <<tasks, View, now, nextId, removed, last, storage, failures,
                   mounted>>

\* the save effect of the first render, whose tasks are the initial ones
saveEffect(ok) ==
    /\ pc = "loaded"
    /\ storage' = setItem(tasks, ok)
    /\ failures' = IF ok THEN failures ELSE failures + 1
    /\ pc' = IF pending = undefined THEN "ready" ELSE "saved"
    /\ UNCHANGED <<tasks, View, now, nextId, removed, last, pending, mounted>>

\* the render the setTasks of the load effect brings, and its save effect
renderLoaded(ok) ==
    /\ pc = "saved"
    /\ tasks' = pending[1]
    /\ pending' = undefined
    /\ storage' = setItem(tasks', ok)
    /\ failures' = IF ok THEN failures ELSE failures + 1
    /\ nextId' = Len(tasks')
    /\ pc' = "ready"
    /\ UNCHANGED <<View, now, removed, last, mounted>>

\* mutant: the effect writes the tasks of the render before the handler
saveOfStaleTasks(ok) ==
    /\ IF last' \in {"rejected", "cancelled", "drag_ignored"}
       THEN UNCHANGED <<storage, failures>>
       ELSE /\ storage' = setItem(tasks, ok)
            /\ failures' = IF ok THEN failures ELSE failures + 1
    /\ mounted' = undefined
    /\ UNCHANGED <<pc, pending>>

\* the save effect of the render a handler's setTasks brings; a handler that
\* returned before its setTasks brings no render
saveAfterHandler(ok) ==
    /\ IF last' \in {"rejected", "cancelled", "drag_ignored"}
       THEN UNCHANGED <<storage, failures>>
       ELSE /\ storage' = setItem(tasks', ok)
            /\ failures' = IF ok THEN failures ELSE failures + 1
    /\ mounted' = undefined
    /\ UNCHANGED <<pc, pending>>

\* the titles and comments typed under SpecPersist: a quote and a backslash
\* in the title, and a tab that trim leaves inside the comment
QuotedTitles == { <<>>, <<"a", "\"", "\\">> }

PersistComments == { <<>>, <<"c", "\t", "d">> }

\* the items localStorage can hold when the component mounts: none, the
\* empty text, texts JSON.parse throws on, texts of values that are not an
\* array, and the texts of arrays of tasks
StoredItems ==
    {undefined, Some(<<>>), Some(<<"[", "{", "}">>), Some(<<"{", "}">>),
     Some(TextNull)}
    \cup {Some(stringify(a)) :
              a \in UNION {StoredArrays(n, {"Midday"}, {1}, {undefined, Some(0)})
                           : n \in 0..MaxStoredTasks}}

\* the component after its first render, before the effects of that render
InitPersist ==
    /\ tasks = <<>>
    /\ categoryFilter = All
    /\ onlyIncomplete = FALSE
    /\ now = 1
    /\ nextId = 0
    /\ removed = {}
    /\ last = "init"
    /\ storage \in StoredItems
    /\ pc = "mounted"
    /\ pending = undefined
    /\ failures = 0
    /\ mounted = storage

\* startup, then the handlers, each followed by the save effect; a write
\* can fail at any time.  The stored tasks may have a category and may lack an
\* order, the created ones have no category and may have a comment, and all
\* are in one section.
NextPersist ==
    \/ loadEffect
    \/ \E ok \in WriteOutcomes : saveEffect(ok)
    \/ \E ok \in WriteOutcomes : renderLoaded(ok)
    \/ /\ pc = "ready"
       /\ Mutate(MaxStoredTasks + MaxPersistTasks, QuotedTitles, {"Midday"},
                 {<<>>}, PersistComments, {1})
       /\ \E ok \in WriteOutcomes : saveAfterHandler(ok)

SpecPersist == InitPersist /\ [][NextPersist]_vars

-----------------------------------------------------------------------------
(* Properties                                                              *)

IdsOf(ts) == {t.id : t \in Range(ts)}

InSection(ts, s) == {t \in Range(ts) : t.section = s}

\* the orders of the tasks of section s are exactly 0..k-1, k their number
Contiguous(ts, s) ==
    /\ \A t \in InSection(ts, s) :
           t.order # undefined /\ t.order[1] \in 0..(Cardinality(InSection(ts, s)) - 1)
    /\ \A t, u \in InSection(ts, s) : t.id # u.id => t.order # u.order

\* no two tasks of one section share an order
UniqueOrders(ts) ==
    \A t, u \in Range(ts) :
        (t.id # u.id /\ t.section = u.section /\ t.order # undefined) => t.order # u.order

\* what a create into section s makes of the collection
createdIn(ts, s) ==
    submitted(ts, undefined, nextId + 1, <<"a">>, s, <<>>, <<>>, now + 1)

\* the largest order among the tasks of section s, -1 when it has none
MaxOrder(ts, s) ==
    IF InSection(ts, s) = {} THEN -1
    ELSE CHOOSE m \in {t.order[1] : t \in InSection(ts, s)} :
             \A t \in InSection(ts, s) : t.order[1] <= m

\* C1, as stated: immediately after a create into a section or a reorder
\* within it, the orders of the section's tasks are exactly 0..k-1.
C1_AfterCreateOrReorderContiguous ==
    /\ last = "create" => Contiguous(tasks, tasks[1].section)
    /\ \A activeId \in DragIds, over \in Overs :
           ~dragReturnsEarly(tasks, activeId, over) =>
               Contiguous(dragResult(tasks, activeId, over),
                          find(tasks, activeId)[1].section)

\* C1, amended: a reorder within a section leaves its orders exactly 0..k-1;
\* a create into a section gives the new task one more than the largest order
\* of the section (0 when it is empty) and leaves the others their orders, so
\* the section's orders are 0..k-1 after it exactly when they were before.
C1_ReorderContiguousCreateAppends ==
    /\ \A activeId \in DragIds, over \in Overs :
           ~dragReturnsEarly(tasks, activeId, over) =>
               Contiguous(dragResult(tasks, activeId, over),
                          find(tasks, activeId)[1].section)
    /\ \A s \in Section :
           LET after == createdIn(tasks, s)
           IN  /\ after[1].order = Some(MaxOrder(tasks, s) + 1)
               /\ Tail(after) = tasks
               /\ Contiguous(after, s) <=> Contiguous(tasks, s)

\* a section holds three tasks right after a reorder
C1_Witness ==
    /\ last = "reorder"
    /\ \E s \in Section :
           Cardinality(InSection(tasks, s)) = 3 /\ Contiguous(tasks, s)

\* C2, as stated: in every reachable state no two tasks of one section share
\* an order.
C2_OrdersUniquePerSection == UniqueOrders(tasks)

\* a step in which no task changes its section
KeepsSections ==
    \A t \in Range(tasks), u \in Range(tasks') : t.id = u.id => t.section = u.section

\* C2, amended: every operation other than an update that moves a task to
\* another section keeps the orders of each section distinct, so they are
\* distinct in every state reached without such an update; an update that
\* changes the section keeps the task's order and can duplicate one.
C2_UniqueUnlessSectionChanged ==
    [][(UniqueOrders(tasks) /\ KeepsSections) => UniqueOrders(tasks')]_vars

\* after a delete left a gap, a create put a second task in the section
C2_Witness ==
    /\ last = "create"
    /\ Len(tasks) = 2
    /\ nextId = 3
    /\ tasks[1].section = tasks[2].section
    /\ UniqueOrders(tasks)

\* the zero-based index of the task id in the sequence l
IndexIn(l, id) == (CHOOSE i \in 1..Len(l) : l[i].id = id) - 1

\* the tasks of section s in the order the board shows them
Shown(ts, s) == SelectIn(filtered(ts, All, FALSE), InSection(ts, s))

\* ts and res hold the same tasks in the same array order, and differ at most
\* in the order of the tasks of section s
SameButOrders(ts, res, s) ==
    /\ Len(res) = Len(ts)
    /\ \A i \in 1..Len(ts) :
           IF ts[i].section = s
           THEN [res[i] EXCEPT !.order = ts[i].order] = ts[i]
           ELSE res[i] = ts[i]

\* C3: a reorder of two distinct stored tasks of one section gives every task
\* of the section its index in the shown sequence with moved taken out and put
\* back where target was, and changes nothing else.
C3_ReorderMovesToTargetIndex ==
    \A moved, target \in IdsOf(tasks) :
        LET m == find(tasks, moved)[1]
            s == m.section
            l == Shown(tasks, s)
            res == dragResult(tasks, moved, Some(target))
            newOrder(id) == find(res, id)[1].order[1]
        IN  (moved # target /\ find(tasks, target)[1].section = s) =>
                /\ SameButOrders(tasks, res, s)
                /\ Contiguous(res, s)
                /\ newOrder(moved) = IndexIn(l, target)
                /\ \A x, y \in IdsOf(l) \ {moved} :
                       IndexIn(l, x) < IndexIn(l, y) => newOrder(x) < newOrder(y)

\* the first task created in a section of three was dragged to the end
C3_Witness ==
    /\ last = "reorder"
    /\ \E s \in Section :
           /\ {t.id : t \in InSection(tasks, s)} = {1, 2, 3}
           /\ find(tasks, 1)[1].order = Some(2)
           /\ find(tasks, 2)[1].order = Some(0)
           /\ find(tasks, 3)[1].order = Some(1)

\* C4: a reorder leaves the collection unchanged when moved or target is not
\* a stored id, when the two tasks are in different sections, or when moved
\* and target are the same.
C4_ReorderIgnoredLeavesTasks ==
    \A moved, target \in DragIds :
        (\/ moved \notin IdsOf(tasks)
         \/ target \notin IdsOf(tasks)
         \/ moved = target
         \/ \E t, u \in Range(tasks) :
                t.id = moved /\ u.id = target /\ t.section # u.section)
        => dragResult(tasks, moved, Some(target)) = tasks

\* a task was dropped on one of another section, where a section's orders
\* have a gap
C4_Witness ==
    /\ last = "drag_ignored"
    /\ \E t, u \in Range(tasks) : t.section # u.section
    /\ \E s \in Section : InSection(tasks, s) # {} /\ ~Contiguous(tasks, s)

\* a title of white space only, or empty
Blank(str) == \A i \in 1..Len(str) : str[i] \in WhiteSpace

\* C5: a create or an update whose title is empty or white space only leaves
\* the collection as it was, whatever the other fields of the form hold.
C5_BlankTitleRejected ==
    \A editing \in {undefined} \cup {Some(i) : i \in DragIds},
       formTitle \in TitleInputs, formSection \in Section,
       formCategory \in CategoryInputs, formComment \in CommentInputs :
        Blank(formTitle) =>
            submitted(tasks, editing, nextId + 1, formTitle, formSection,
                      formCategory, formComment, now) = tasks

\* a form with a blank title was submitted while a task with a category and
\* a comment was stored
C5_Witness ==
    /\ last = "rejected"
    /\ \E t \in Range(tasks) : t.category # undefined /\ t.comment # undefined

\* C6: toggling a stored task twice gives back the collection, and toggling
\* it once changes the done field of that task and nothing else.
C6_ToggleInvolution ==
    \A id \in IdsOf(tasks) :
        LET once == toggled(tasks, id)
        IN  /\ toggled(once, id) = tasks
            /\ Len(once) = Len(tasks)
            /\ \A i \in 1..Len(tasks) :
                   IF tasks[i].id = id
                   THEN /\ once[i].done = ~tasks[i].done
                        /\ [once[i] EXCEPT !.done = tasks[i].done] = tasks[i]
                   ELSE once[i] = tasks[i]

\* a task was just toggled, and the collection holds a done task and one
\* that is not
C6_Witness ==
    /\ last = "toggle"
    /\ \E t, u \in Range(tasks) : t.done /\ ~u.done

\* the category filters a query can use: All, a category in use, one unused
QueryFilters == {All, <<"w">>, <<"x">>}

\* C7: a deleted id is never again in the collection nor in any filtered
\* list; a delete removes the task of that id and leaves the others as they
\* were, in their order, and a delete of an id that is not stored changes
\* nothing.
C7_DeletedNeverReturned ==
    /\ \A id \in removed :
           /\ id \notin IdsOf(tasks)
           /\ \A cf \in QueryFilters, oi \in BOOLEAN :
                  id \notin IdsOf(filtered(tasks, cf, oi))
    /\ \A id \in DragIds :
           LET rest == without(tasks, id)
           IN  /\ id \notin IdsOf(rest)
               /\ Range(rest) = {t \in Range(tasks) : t.id # id}
               /\ \A i, j \in 1..Len(rest) :
                      i < j => IndexIn(tasks, rest[i].id) < IndexIn(tasks, rest[j].id)
               /\ id \notin IdsOf(tasks) => rest = tasks

\* a task was deleted, another was created after that, and the category
\* filter of its category shows it
C7_Witness ==
    /\ removed # {}
    /\ last = "create"
    /\ filtered(tasks, <<"w">>, FALSE) # <<>>

\* t passes the category filter cf and the only-incomplete switch oi
Passes(t, cf, oi) ==
    /\ cf = All \/ (t.category # undefined /\ t.category[1] = cf)
    /\ ~oi \/ ~t.done

Rounded(p, done, total) ==
    2 * p * total - total <= 200 * done /\ 200 * done < 2 * p * total + total

\* C9: for every filter setting and each of the three sections, section_stats
\* reports the number of done tasks and of all tasks of the section that pass
\* the filters, and their rounded percentage, 0 for an empty section; when no
\* task passes, filtered is empty and every section reports 0, 0, 0.
C9_StatsOverFiltered ==
    \A cf \in QueryFilters, oi \in BOOLEAN :
        LET f == filtered(tasks, cf, oi)
            stats == statsOf(f)
            passing(s) == {t \in Range(tasks) : Passes(t, cf, oi) /\ t.section = s}
        IN  /\ DOMAIN stats = {"Morning", "Midday", "AfterWork"}
            /\ \A s \in DOMAIN stats :
                   /\ stats[s].total = Cardinality(passing(s))
                   /\ stats[s].done = Cardinality({t \in passing(s) : t.done})
                   /\ IF stats[s].total = 0
                      THEN stats[s].pct = 0
                      ELSE Rounded(stats[s].pct, stats[s].done, stats[s].total)
            /\ (\A t \in Range(tasks) : ~Passes(t, cf, oi)) =>
                   /\ f = <<>>
                   /\ \A s \in DOMAIN stats :
                          stats[s] = [done |-> 0, total |-> 0, pct |-> 0]
            /\ (cf = categoryFilter /\ oi = onlyIncomplete) => sectionStats = stats

\* the category filter is on and hides a task of a section, which reports
\* one done task of two, while another section reports 0, 0, 0
C9_Witness ==
    /\ categoryFilter = <<"w">>
    /\ \E s, e \in Section :
           /\ Cardinality(InSection(tasks, s)) = 3
           /\ sectionStats[s] = [done |-> 1, total |-> 2, pct |-> 50]
           /\ sectionStats[e] = [done |-> 0, total |-> 0, pct |-> 0]

\* the collection after three creates into Morning from the empty store
ThreeInMorning ==
    LET one == submitted(<<>>, undefined, 1, <<"a">>, "Morning", <<>>, <<>>, 1)
        two == submitted(one, undefined, 2, <<"a">>, "Morning", <<>>, <<>>, 2)
    IN  submitted(two, undefined, 3, <<"a">>, "Morning", <<>>, <<>>, 3)

\* the ids of a list, in its sequence
IdSeq(l) == [i \in 1..Len(l) |-> l[i].id]

\* C10, as stated: three tasks created one after another in Morning are
\* returned by filtered newest first, the reverse of their creation sequence.
C10_ThreeCreatedNewestFirst ==
    tasks = ThreeInMorning => IdSeq(filtered(tasks, All, FALSE)) = <<3, 2, 1>>

\* C10, amended: three tasks created one after another in Morning are
\* returned by filtered in their creation sequence, oldest first: create
\* gives them the orders 0, 1, 2, and the order decides before createdAt.
C10_ThreeCreatedInCreationOrder ==
    tasks = ThreeInMorning =>
        /\ IdSeq(filtered(tasks, All, FALSE)) = <<1, 2, 3>>
        /\ \A i \in 1..3 : find(tasks, i)[1].order = Some(i - 1)
        /\ \A i, j \in 1..3 :
               i < j => find(tasks, i)[1].createdAt < find(tasks, j)[1].createdAt

\* the third of three creates into Morning has just run
C10_Witness == tasks = ThreeInMorning /\ last = "create" /\ Len(tasks) = 3

\* C11: in every state the handlers reach, the load effect run on the text
\* the save effect writes for the collection hands setTasks a collection
\* equal to it: the same tasks in the same sequence, every field equal, a
\* category, comment or order that is absent still absent.
C11_LoadOfSaveIsCollection == loaded(Some(stringify(tasks))) = Some(tasks)

\* the save effect wrote a collection of two tasks: one without category and
\* order, one with a quote and a backslash in its title and a tab in its
\* comment
C11_Witness ==
    /\ pc = "ready"
    /\ last = "toggle"
    /\ storage = Some(stringify(tasks))
    /\ \E t, u \in Range(tasks) :
           /\ t.category = undefined /\ t.order = undefined /\ t.comment = undefined
           /\ u.title = <<"a", "\"", "\\">>
           /\ u.comment = Some(<<"c", "\t", "d">>)
           /\ u.done

\* the collections the seven mutations can make of the collection under
\* SpecPersist, whatever becomes of the write that follows
Mutations ==
    {submitted(tasks, editing, nextId + 1, ft, "Midday", <<>>, fm, now + 1) :
        editing \in {undefined} \cup {Some(i) : i \in 1..nextId},
        ft \in QuotedTitles \ {<<>>}, fm \in PersistComments}
    \cup {toggled(tasks, id) : id \in DragIds}
    \cup {without(tasks, id) : id \in DragIds}
    \cup {<<>>, allIncomplete(tasks)}
    \cup {reordered(tasks, p[1], p[2]) :
              p \in {q \in IdsOf(tasks) \X IdsOf(tasks) : q[1] # q[2]}}

\* a step of a handler that called setTasks
Mutated == pc = "ready" /\ last' \notin {"rejected", "cancelled", "drag_ignored"}

\* C12: every mutation of the collection is followed, in the same step and
\* so before the next mutation, by the save effect: if its write succeeds
\* the item is the text of the whole collection as the mutation left it; if
\* its write fails the item stays as it was, the collection is what the
\* mutation made of it, and the component goes on.
C12_SavedAfterEveryMutation ==
    [][Mutated =>
          /\ pc' = "ready"
          /\ tasks' \in Mutations
          /\ IF failures' = failures
             THEN storage' = Some(stringify(tasks'))
             ELSE storage' = storage]_vars

\* a delete whose write failed: the item still holds the text of the two
\* tasks, the collection holds one
C12_Witness ==
    /\ pc = "ready"
    /\ last = "delete"
    /\ failures = 1
    /\ Len(tasks) = 1
    /\ \E l \in {loaded(storage)} : l # undefined /\ Len(l[1]) = 2

\* C13: in every state reached from the empty store, for each section, the
\* sequence onDragEnd sorts the section's tasks into before it moves one is
\* the sequence filtered shows for the section under "All" with the switch
\* off, also where an update to another section has left two tasks of a
\* section with one order: the sort of onDragEnd compares the order alone
\* and is stable, and the collection holds the newer task first.
C13_ReorderSortsAsView ==
    \A s \in Section : sectionTasks(tasks, s) = Shown(tasks, s)

\* an update has moved a task to the section of another, whose order it
\* shares, and the two were not created at the same time
C13_Witness ==
    /\ last = "update"
    /\ \E s \in Section :
           /\ Cardinality(InSection(tasks, s)) = 2
           /\ sectionTasks(tasks, s) = tasks
           /\ \E t, u \in InSection(tasks, s) :
                  t.order = u.order /\ t.createdAt < u.createdAt

\* the effects startup brings have all run, and no handler has
StartupOver == pc = "ready" /\ last = "init"

\* C14: when the item held the text of an array of tasks as the component
\* mounted, then once the load effect and the save effects of startup have
\* run the collection is that array and the item is again the text of it;
\* when there was no item, or one that does not parse or is not an array,
\* the collection is empty.
C14_StartupRestoresStored ==
    StartupOver =>
        IF loaded(mounted) = undefined
        THEN tasks = <<>>
        ELSE /\ tasks = loaded(mounted)[1]
             /\ storage = Some(stringify(tasks))

====
